---------------------------- MODULE Spec2Model ----------------------------
(***************************************************************************)
(* A model of gtsam_unstable/nonlinear/CallRecord.h:                       *)
(*                                                                         *)
(*  - the reverse-mode dispatch layer (ConvertToDynamicRowsIf,             *)
(*    ReverseADInterface, CallRecord, ReverseADImplementor,                *)
(*    CallRecordImplementor), and                                          *)
(*  - multipliedHessian of NonlinearEqualityConstraint1/2/3.               *)
(*                                                                         *)
(* A matrix value is a tuple of rows, each row a tuple of integers.  A     *)
(* block is a matrix together with its compile-time type                   *)
(* Eigen::Matrix<double, R, C>:  [R |-> rows or Dynamic, C |-> columns or  *)
(* Dynamic, m |-> value].  The accumulator (JacobianMap) is a function     *)
(* from the keys it holds to matrices.                                     *)
(***************************************************************************)
EXTENDS Integers, Sequences, FiniteSets, TLC

(***************************************************************************)
(* Bounds of the model.                                                    *)
(***************************************************************************)
MaxRows == 5        \* largest row count of an upstream block
MaxCols == 2        \* largest column width Cols of a record
VarDim == 1         \* dimension of every argument (columns of dTdA)
MaxCalls == 2       \* propagations into one accumulator
StackLimit == 2     \* nested re-entries before the stack overflows

Vals == {0, 1}
Keys == {"x1", "x2"}

(***************************************************************************)
(* Program constants.                                                      *)
(***************************************************************************)
MaxVirtualStaticRows == 4
Dynamic == -1

(***************************************************************************)
(* Matrices.                                                               *)
(***************************************************************************)
NRows(m) == Len(m)

NCols(m) == IF Len(m) = 0 THEN 0 ELSE Len(m[1])

RECURSIVE SumTo(_, _)
SumTo(f, n) == IF n = 0 THEN 0 ELSE f[n] + SumTo(f, n - 1)

\* a (r x n) times b (n x c)
MatMul(a, b) ==
  [i \in 1..NRows(a) |->
     [j \in 1..NCols(b) |->
        SumTo([k \in 1..NRows(b) |-> a[i][k] * b[k][j]], NRows(b))]]

MatAdd(a, b) ==
  [i \in 1..NRows(a) |-> [j \in 1..NCols(a) |-> a[i][j] + b[i][j]]]

Fill(r, c, v) == [i \in 1..r |-> [j \in 1..c |-> v]]

Identity(n) == [i \in 1..n |-> [j \in 1..n |-> IF i = j THEN 1 ELSE 0]]

\* the matrices the model draws its inputs from: no two entries of a ramp
\* are equal, and a corner matrix is zero but for its last entry
Ramp(r, c, s) == [i \in 1..r |-> [j \in 1..c |-> s + (i - 1) * c + j]]

Corner(r, c) == [i \in 1..r |-> [j \in 1..c |-> IF i = r /\ j = c THEN 1 ELSE 0]]

Mats(r, c) == {Ramp(r, c, s) : s \in Vals} \cup {Corner(r, c)}

(***************************************************************************)
(* Block types and the records of the model.                               *)
(***************************************************************************)
TypeOf(x) == [R |-> x.R, C |-> x.C]

\* one event of a call trace: the function entered and the block it got
Ev(fn, t, x) == [fn |-> fn, t |-> t, blk |-> x]

\* what a call leaves behind: the record, the accumulator, the functions
\* entered in order, and how the call ended
Res(rec, jac, calls, st) ==
  [rec |-> rec, jac |-> jac, calls |-> calls, st |-> st]

NoBlock == [R |-> 0, C |-> 0, m |-> << >>]

EmptyJacobians == << >>

(***************************************************************************)
(* ConvertToDynamicRowsIf<ConvertToDynamicRows>::convert.  The primary     *)
(* template builds an Eigen::Matrix<double, Dynamic, Cols> from x (the     *)
(* same rows, columns and values under the dynamic-row type); the <false>  *)
(* specialisation returns the reference it was given.                      *)
(***************************************************************************)
ConvertAlways(ConvertToDynamicRows, x) ==
  [R |-> Dynamic, C |-> x.C, m |-> x.m]

ConvertTruncating(ConvertToDynamicRows, x) ==
  IF ConvertToDynamicRows
    THEN [R |-> Dynamic, C |-> x.C,
          m |-> SubSeq(x.m, 1, MaxVirtualStaticRows)]
    ELSE x

ConvertToDynamicRowsIf(ConvertToDynamicRows, x) ==
  IF ConvertToDynamicRows
    THEN [R |-> Dynamic, C |-> x.C, m |-> x.m]
    ELSE x

(***************************************************************************)
(* ReverseADInterface<MaxSupportedStaticRows, Cols>: the parameter types   *)
(* of the pure virtual _reverseAD overloads the level declares or          *)
(* re-exposes.  Level 0 declares the dynamic-row and the fully dynamic     *)
(* overload, level n adds the n-row overload.                              *)
(***************************************************************************)
RECURSIVE ReverseADInterface(_, _)
ReverseADInterface(MaxSupportedStaticRows, Cols) ==
  IF MaxSupportedStaticRows = 0
    THEN {[R |-> Dynamic, C |-> Cols], [R |-> Dynamic, C |-> Dynamic]}
    ELSE ReverseADInterface(MaxSupportedStaticRows - 1, Cols)
           \cup {[R |-> MaxSupportedStaticRows, C |-> Cols]}

(***************************************************************************)
(* ReverseADImplementor<Derived, MaxSupportedStaticRows, Cols>: the        *)
(* overloads the level overrides, with those of the levels below it.       *)
(***************************************************************************)
RECURSIVE ReverseADImplementor(_, _)
ReverseADImplementor(MaxSupportedStaticRows, Cols) ==
  IF MaxSupportedStaticRows = 0
    THEN {[R |-> Dynamic, C |-> Cols], [R |-> Dynamic, C |-> Dynamic]}
    ELSE ReverseADImplementor(MaxSupportedStaticRows - 1, Cols)
           \cup {[R |-> MaxSupportedStaticRows, C |-> Cols]}

(***************************************************************************)
(* Overload resolution of _reverseAD(x, jacobians) in CallRecord<Cols>:    *)
(* the declared overloads whose parameter binds to an argument of type t   *)
(* without a conversion.                                                   *)
(***************************************************************************)
Overloads_reverseAD(Cols, t) ==
  {e \in ReverseADInterface(MaxVirtualStaticRows, Cols) : e = t}

(***************************************************************************)
(* Template argument deduction for the inherited                           *)
(*   template<int Rows> CallRecord<Cols>::reverseAD(                       *)
(*       const Eigen::Matrix<double, Rows, Cols>&, JacobianMap&):          *)
(* Rows is deduced, the column count is the class's own Cols.              *)
(***************************************************************************)
DeduceAnyCols(Cols, t) == TRUE

Deduce_reverseAD(Cols, t) == t.C = Cols

(***************************************************************************)
(* The accumulator (JacobianMap) and the node's own backward routine.      *)
(* Neither is in CallRecord.h; both follow the specification: the          *)
(* accumulator adds a block to the entry of a key, inserting it when the   *)
(* key is absent, and the routine adds block * dTdA for each argument.     *)
(***************************************************************************)
AddContribution(jac, key, b) ==
  IF key \in DOMAIN jac
    THEN [jac EXCEPT ![key] = MatAdd(@, b)]
    ELSE jac @@ (key :> b)

RECURSIVE PropagateArgs(_, _, _, _)
PropagateArgs(args, n, m, jac) ==
  IF n = 0
    THEN jac
    ELSE AddContribution(PropagateArgs(args, n - 1, m, jac),
                         args[n].key, MatMul(m, args[n].dTdA))

Derived_reverseAD(rec, dFdT, jac) ==
  PropagateArgs(rec.args, Len(rec.args), dFdT.m, jac)


(***************************************************************************)
(* The adapter chain.  Every _reverseAD override forwards to               *)
(* derived().reverseAD(dFdT, jacobians).  The name reverseAD is looked up  *)
(* in Derived: a Derived that declares reverseAD hides the inherited       *)
(* CallRecord<Cols>::reverseAD; otherwise the call is one to the inherited *)
(* public template.                                                        *)
(***************************************************************************)
RECURSIVE CallRecord_reverseAD(_, _, _, _)

Derived_call(rec, dFdT, jac, depth) ==
  IF rec.ownReverseAD
    THEN Res(rec, Derived_reverseAD(rec, dFdT, jac),
             <<Ev("Derived::reverseAD", TypeOf(dFdT), dFdT)>>, "ok")
    ELSE CallRecord_reverseAD(rec, dFdT, jac, depth + 1)

Entered(e, x, r) ==
  Res(r.rec, r.jac, <<Ev("_reverseAD", e, x)>> \o r.calls, r.st)

\* ReverseADImplementor<Derived, N, Cols>::_reverseAD, N >= 1
ImplementorN_NoForward(rec, N, dFdT, jac, depth) ==
  Entered([R |-> N, C |-> rec.Cols], dFdT, Res(rec, jac, << >>, "ok"))

ImplementorN_FreshAccumulator(rec, N, dFdT, jac, depth) ==
  Entered([R |-> N, C |-> rec.Cols], dFdT,
          Derived_call(rec, dFdT, EmptyJacobians, depth))

ReverseADImplementor_N__reverseAD(rec, N, dFdT, jac, depth) ==
  Entered([R |-> N, C |-> rec.Cols], dFdT,
          Derived_call(rec, dFdT, jac, depth))

\* ReverseADImplementor<Derived, 0, Cols>::_reverseAD, dynamic rows
ReverseADImplementor_0__reverseAD_DynamicRows(rec, dFdT, jac, depth) ==
  Entered([R |-> Dynamic, C |-> rec.Cols], dFdT,
          Derived_call(rec, dFdT, jac, depth))

\* ReverseADImplementor<Derived, 0, Cols>::_reverseAD, const Matrix &
ImplementorMatrix_ViaDynamicRows(rec, dFdT, jac, depth) ==
  Entered([R |-> Dynamic, C |-> Dynamic], dFdT,
          ReverseADImplementor_0__reverseAD_DynamicRows(
              rec, [R |-> Dynamic, C |-> rec.Cols, m |-> dFdT.m], jac, depth))

ReverseADImplementor_0__reverseAD_Matrix(rec, dFdT, jac, depth) ==
  Entered([R |-> Dynamic, C |-> Dynamic], dFdT,
          Derived_call(rec, dFdT, jac, depth))

\* the virtual call of overload e on a record built through
\* CallRecordImplementor
Virtual__reverseAD(rec, e, x, jac, depth) ==
  IF e.R # Dynamic
    THEN ReverseADImplementor_N__reverseAD(rec, e.R, x, jac, depth)
    ELSE IF e.C # Dynamic
      THEN ReverseADImplementor_0__reverseAD_DynamicRows(rec, x, jac, depth)
      ELSE ReverseADImplementor_0__reverseAD_Matrix(rec, x, jac, depth)

(***************************************************************************)
(* CallRecord<Cols>::reverseAD<Rows>(dFdT, jacobians).  A call nested      *)
(* deeper than StackLimit ends the run (the stack is exhausted).           *)
(***************************************************************************)
CallRecord_reverseAD(rec, dFdT, jac, depth) ==
  IF depth > StackLimit
    THEN Res(rec, jac, << >>, "overflow")
    ELSE LET x == ConvertToDynamicRowsIf(dFdT.R > MaxVirtualStaticRows, dFdT)
             es == Overloads_reverseAD(rec.Cols, TypeOf(x))
         IN  IF Cardinality(es) # 1
               THEN Res(rec, jac, << >>, "ill-formed")
               ELSE Virtual__reverseAD(rec, CHOOSE e \in es : TRUE,
                                       x, jac, depth)

(***************************************************************************)
(* startReverseAD and print.  CallRecord forwards to the private virtual,  *)
(* CallRecordImplementor forwards that to Derived.  Derived's own two      *)
(* operations are not in CallRecord.h and follow the specification:        *)
(* startReverseAD seeds the node's backward routine with the identity of   *)
(* the node's output dimension, print writes a line.                       *)
(***************************************************************************)
Derived_startReverseAD(rec, jac) ==
  Derived_reverseAD(rec,
      [R |-> rec.Cols, C |-> rec.Cols, m |-> Identity(rec.Cols)], jac)

StartNoForward(rec, jac) ==
  Res(rec, jac, <<Ev("_startReverseAD", [R |-> 0, C |-> 0], NoBlock)>>, "ok")

CallRecordImplementor__startReverseAD(rec, jac) ==
  Res(rec, Derived_startReverseAD(rec, jac),
      <<Ev("_startReverseAD", [R |-> 0, C |-> 0], NoBlock),
        Ev("Derived::startReverseAD", [R |-> 0, C |-> 0], NoBlock)>>, "ok")

CallRecord_startReverseAD(rec, jac) ==
  CallRecordImplementor__startReverseAD(rec, jac)

Derived_print(rec, indent) == [indent |-> indent, Cols |-> rec.Cols]

CallRecordImplementor__print(rec, indent) == Derived_print(rec, indent)

\* print leaves the record and the accumulator as they are
PrintClearing(rec, indent, jac) ==
  [rec |-> rec, jac |-> EmptyJacobians,
   line |-> CallRecordImplementor__print(rec, indent)]

CallRecord_print(rec, indent, jac) ==
  [rec |-> rec, jac |-> jac,
   line |-> CallRecordImplementor__print(rec, indent)]


(***************************************************************************)
(* Building a record type.  A class with a pure virtual left without an    *)
(* override cannot be constructed, and the overrides of a class template   *)
(* are instantiated with its vtable, so the forward in each of them has to *)
(* resolve: to Derived's own reverseAD, or by deduction to the inherited   *)
(* one.                                                                    *)
(***************************************************************************)
ForwardResolves(rec, e) ==
  rec.ownReverseAD \/ Deduce_reverseAD(rec.Cols, e)

BuildOutcome(rec) ==
  IF /\ ReverseADInterface(MaxVirtualStaticRows, rec.Cols)
          \subseteq ReverseADImplementor(MaxVirtualStaticRows, rec.Cols)
     /\ \A e \in ReverseADImplementor(MaxVirtualStaticRows, rec.Cols) :
          ForwardResolves(rec, e)
    THEN "ok"
    ELSE "rejected"

(***************************************************************************)
(* The state: one record, the accumulator of the traversal under way, and  *)
(* what the last call did.                                                 *)
(***************************************************************************)
VARIABLES
  rec,        \* the record: Cols, ownReverseAD, args (key and dTdA of each)
  tr,         \* rows of every upstream block of the traversal
  built,      \* "unbuilt", "ok" or "rejected"
  jacobians,  \* the accumulator
  jac0,       \* the accumulator before the last call
  hist,       \* the calls that added to the accumulator since it was empty
  calls,      \* the functions the last call entered, in order
  lastOp,     \* the last public operation
  status,     \* how the last call ended
  out         \* the lines printed

advars == <<rec, tr, built, jacobians, jac0, hist, calls, lastOp, status, out>>

\* the constraint part of the state
VARIABLES
  con,        \* the constraint: arity, keys, dualKey, constraintDim
  pc,         \* where the call of multipliedHessian stands
  lambda,     \* duals.at(dualKey())
  G,          \* the lists evaluateHessians returned
  i,          \* the loop index
  sums,       \* lG11sum, lG12sum, ...
  result      \* what the call returned, or how it ended

mhvars == <<con, pc, lambda, G, i, sums, result>>

\* the fields of the base class NonlinearEqualityConstraint, and what the
\* last call of one of its members was and returned
VARIABLES
  dualKey_,   \* Key dualKey_
  active_,    \* bool active_
  lastSet,    \* the argument of the last setActive_, or "none"
  ret         \* the last isActive_() or dualKey() and the value it returned

necvars == <<dualKey_, active_, lastSet, ret>>

vars == <<advars, mhvars, necvars>>

ArgLists(C) ==
  {<<[key |-> "x1", dTdA |-> D]>> : D \in Mats(C, VarDim)}
    \cup {<<[key |-> "x1", dTdA |-> D],
            [key |-> k, dTdA |-> Fill(C, VarDim, 1)]>> :
            D \in Mats(C, VarDim), k \in Keys}

Records ==
  UNION {{[Cols |-> C, ownReverseAD |-> o, args |-> a] :
            o \in BOOLEAN, a \in ArgLists(C)} : C \in 1..MaxCols}

\* the blocks a caller can hand to the public reverseAD: r rows known at
\* compile time, or r rows known at run time
PublicBlocks(r, C) ==
  {[R |-> R, C |-> C, m |-> m] : R \in {r, Dynamic}, m \in Mats(r, C)}

\* the blocks of r rows that bind to the parameter of overload e
EntryBlocks(e, r, C) ==
  IF e.R # Dynamic /\ e.R # r
    THEN {}
    ELSE {[R |-> e.R, C |-> e.C, m |-> m] : m \in Mats(r, C)}

Build ==
  /\ built = "unbuilt"
  /\ built' = BuildOutcome(rec)
  /\ lastOp' = "build"
  /\ UNCHANGED <<rec, tr, jacobians, jac0, hist, calls, status, out>>
  /\ UNCHANGED <<mhvars, necvars>>

Running == built = "ok" /\ status = "ok"

Finish(op, blk, r) ==
  /\ rec' = r.rec
  /\ jacobians' = r.jac
  /\ jac0' = jacobians
  /\ calls' = r.calls
  /\ status' = r.st
  /\ lastOp' = op
  /\ hist' = Append(hist, [op |-> op, blk |-> blk])
  /\ UNCHANGED <<tr, built, out>>
  /\ UNCHANGED <<mhvars, necvars>>

ReverseAD ==
  /\ Running
  /\ Len(hist) < MaxCalls
  /\ \E blk \in PublicBlocks(tr, rec.Cols) :
       /\ Deduce_reverseAD(rec.Cols, TypeOf(blk))
       /\ Finish("reverseAD", blk, CallRecord_reverseAD(rec, blk, jacobians, 0))

InvokeEntry ==
  /\ Running
  /\ Len(hist) < MaxCalls
  /\ \E e \in ReverseADInterface(MaxVirtualStaticRows, rec.Cols) :
       \E blk \in EntryBlocks(e, tr, rec.Cols) :
         Finish("_reverseAD", blk, Virtual__reverseAD(rec, e, blk, jacobians, 0))

StartReverseAD ==
  /\ Running
  /\ Len(hist) < MaxCalls
  /\ tr = rec.Cols
  /\ Finish("startReverseAD", NoBlock, CallRecord_startReverseAD(rec, jacobians))

DoPrint ==
  /\ Running
  /\ Len(hist) < MaxCalls
  /\ \E indent \in {"", "  "} :
       LET r == CallRecord_print(rec, indent, jacobians)
       IN  /\ rec' = r.rec
           /\ jacobians' = r.jac
           /\ out' = Append(out, r.line)
  /\ jac0' = jacobians
  /\ calls' = << >>
  /\ lastOp' = "print"
  /\ hist' = Append(hist, [op |-> "print", blk |-> NoBlock])
  /\ UNCHANGED <<tr, built, status>>
  /\ UNCHANGED <<mhvars, necvars>>

ADNext ==
  \/ Build
  \/ ReverseAD
  \/ InvokeEntry
  \/ StartReverseAD
  \/ DoPrint


(***************************************************************************)
(* Properties of the dispatch layer.                                       *)
(***************************************************************************)
LastBlk == hist[Len(hist)].blk

StaticRows == 1..MaxVirtualStaticRows

EntryEvents(c) == SelectSeq(c, LAMBDA ev : ev.fn = "_reverseAD")

AsDynamicRows(x) == [R |-> Dynamic, C |-> x.C, m |-> x.m]

\* C1: the public reverseAD, given a block of r rows known at compile time,
\* r in 1..MaxVirtualStaticRows, or of dynamic rows, enters exactly one
\* _reverseAD overload, the one declared for that row-count class, and
\* hands it the block as it is: same type, same rows, columns and values.
C1_RoutesToOwnClass ==
  (lastOp = "reverseAD" /\ LastBlk.R \in StaticRows \cup {Dynamic}) =>
     /\ Len(EntryEvents(calls)) = 1
     /\ EntryEvents(calls)[1].t = [R |-> LastBlk.R, C |-> rec.Cols]
     /\ EntryEvents(calls)[1].t
          \in ReverseADInterface(MaxVirtualStaticRows, rec.Cols)
     /\ EntryEvents(calls)[1].blk = LastBlk

C1_Witness ==
  /\ lastOp = "reverseAD"
  /\ LastBlk.R = MaxVirtualStaticRows
  /\ rec.Cols = 2
  /\ Len(EntryEvents(calls)) = 1

\* C2: a block of r > MaxVirtualStaticRows rows known at compile time is
\* routed to the dynamic-row overload, which receives all r rows, the same
\* columns and the same values; the accumulator ends as it does when the
\* dynamic-row overload is called directly with the same data.
C2_OverflowRoutesToDynamic ==
  (lastOp = "reverseAD" /\ LastBlk.R > MaxVirtualStaticRows) =>
     /\ Len(EntryEvents(calls)) = 1
     /\ EntryEvents(calls)[1].t = [R |-> Dynamic, C |-> rec.Cols]
     /\ EntryEvents(calls)[1].blk.m = LastBlk.m
     /\ NRows(EntryEvents(calls)[1].blk.m) = LastBlk.R
     /\ EntryEvents(calls)[1].blk.C = LastBlk.C
     /\ jacobians =
          ReverseADImplementor_0__reverseAD_DynamicRows(
              rec, AsDynamicRows(LastBlk), jac0, 0).jac

C2_Witness ==
  /\ lastOp = "reverseAD"
  /\ LastBlk.R = MaxVirtualStaticRows + 1
  /\ LastBlk.m = Corner(LastBlk.R, rec.Cols)
  /\ \E k \in DOMAIN jacobians : NRows(jacobians[k]) = MaxVirtualStaticRows + 1

\* C3: from the same accumulator, the r-row overload, r in
\* 1..MaxVirtualStaticRows, and the dynamic-row overload given the same
\* rows and values leave the same accumulator: same keys, same blocks.
C3_StaticEqualsDynamic ==
  (lastOp \in {"reverseAD", "_reverseAD"} /\ LastBlk.R \in StaticRows) =>
     /\ EntryEvents(calls)[1].t.R = LastBlk.R
     /\ jacobians =
          ReverseADImplementor_0__reverseAD_DynamicRows(
              rec, AsDynamicRows(LastBlk), jac0, 0).jac
     /\ DOMAIN jacobians = {rec.args[n].key : n \in 1..Len(rec.args)}

C3_Witness ==
  /\ lastOp = "_reverseAD"
  /\ LastBlk.R = 3
  /\ jac0 # EmptyJacobians
  /\ jacobians # jac0

\* C4: each of the MaxVirtualStaticRows + 2 declared overloads has an
\* override, and an invoked override calls Derived's reverseAD once, with
\* the block and the accumulator it received, enters no other overload and
\* does nothing else.
C4_EveryEntryForwardsOnce ==
  /\ Cardinality(ReverseADInterface(MaxVirtualStaticRows, rec.Cols))
       = MaxVirtualStaticRows + 2
  /\ ReverseADInterface(MaxVirtualStaticRows, rec.Cols)
       = ReverseADImplementor(MaxVirtualStaticRows, rec.Cols)
  /\ lastOp = "_reverseAD" =>
       /\ calls = <<Ev("_reverseAD", TypeOf(LastBlk), LastBlk),
                    Ev("Derived::reverseAD", TypeOf(LastBlk), LastBlk)>>
       /\ jacobians = Derived_reverseAD(rec, LastBlk, jac0)
       /\ status = "ok"

C4_Witness ==
  /\ lastOp = "_reverseAD"
  /\ TypeOf(LastBlk) = [R |-> Dynamic, C |-> Dynamic]
  /\ Len(calls) = 2

\* C5: a node type without a reverseAD of its own is rejected when it is
\* built: none of its operations ever runs, and no call of any node
\* re-enters the inherited reverseAD until the stack is exhausted.
C5_MissingRoutineRejected ==
  /\ status # "overflow"
  /\ ~rec.ownReverseAD =>
       /\ built # "ok"
       /\ hist = << >>
       /\ calls = << >>
       /\ jacobians = EmptyJacobians

C5_Witness == ~rec.ownReverseAD /\ built = "rejected"


\* the accumulator after propagating block U alone, from an empty one
Alone(U) == CallRecord_reverseAD(rec, U, EmptyJacobians, 0).jac

\* the accumulator after propagating U and then V, from an empty one
InOrder(U, V) == CallRecord_reverseAD(rec, V, Alone(U), 0).jac

\* C6: for two upstream blocks U1 and U2 of a node, propagating U1 then U2
\* and propagating U2 then U1 into one accumulator end in the same state,
\* which is, key by key, the elementwise sum of the accumulators got by
\* propagating U1 alone and U2 alone.
C6_AdditiveInEitherOrder ==
  (Len(hist) = 2 /\ hist[1].op = "reverseAD" /\ hist[2].op = "reverseAD") =>
     LET U1 == hist[1].blk
         U2 == hist[2].blk
     IN  /\ jacobians = InOrder(U2, U1)
         /\ DOMAIN jacobians = DOMAIN Alone(U1) \cup DOMAIN Alone(U2)
         /\ \A k \in DOMAIN jacobians :
              /\ k \in DOMAIN Alone(U1) \cap DOMAIN Alone(U2)
              /\ jacobians[k] = MatAdd(Alone(U1)[k], Alone(U2)[k])

C6_Witness ==
  /\ Len(hist) = 2
  /\ hist[1].op = "reverseAD"
  /\ hist[2].op = "reverseAD"
  /\ hist[1].blk.m # hist[2].blk.m
  /\ Len(rec.args) = 2
  /\ rec.args[1].key = rec.args[2].key
  /\ jacobians # Alone(hist[2].blk)

\* C7: startReverseAD on the root record of a node with one argument,
\* given an empty accumulator, leaves under the argument's key exactly the
\* node's stored dTdA: the seed is the identity of the node's output
\* dimension.
C7_SeedReproducesLocalDerivative ==
  (lastOp = "startReverseAD" /\ jac0 = EmptyJacobians /\ Len(rec.args) = 1) =>
     /\ DOMAIN jacobians = {rec.args[1].key}
     /\ jacobians[rec.args[1].key] = rec.args[1].dTdA
     /\ NRows(jacobians[rec.args[1].key]) = rec.Cols

C7_Witness ==
  /\ lastOp = "startReverseAD"
  /\ jac0 = EmptyJacobians
  /\ Len(rec.args) = 1
  /\ rec.Cols = 2
  /\ rec.args[1].dTdA = Ramp(2, VarDim, 1)
  /\ DOMAIN jacobians = {"x1"}

\* C8: no call of print, startReverseAD or reverseAD changes the record;
\* print changes no accumulator, and reverseAD and startReverseAD change
\* nothing but the accumulator they are given.
C8_RecordIsNeverChanged ==
  [][/\ rec' = rec
     /\ lastOp' = "print" => jacobians' = jacobians
     /\ lastOp' \in {"reverseAD", "_reverseAD", "startReverseAD"} => out' = out]_vars

C8_Witness ==
  /\ lastOp = "print"
  /\ Len(hist) = 2
  /\ hist[1].op = "reverseAD"
  /\ jacobians # EmptyJacobians
  /\ Len(out) = 1


(***************************************************************************)
(* NonlinearEqualityConstraint1/2/3::multipliedHessian.                    *)
(*                                                                         *)
(* A constraint of arity n has the keys key1..keyn of its variables, the   *)
(* dual key and the dimension constraintDim given to its constructor.      *)
(* The i-th variable has dimension XDim(i) (X1Dim, X2Dim, X3Dim).          *)
(***************************************************************************)
MaxDim == 2          \* largest constraint dimension, dual dimension, list length

LambdaVals == {-1, 2}

XDim(n) == IF n = 2 THEN 2 ELSE 1

ListNames == <<"G11", "G12", "G13", "G22", "G23", "G33">>

\* the variables a list differentiates by
ListVars(L) ==
  CASE L = "G11" -> <<1, 1>>
    [] L = "G12" -> <<1, 2>>
    [] L = "G13" -> <<1, 3>>
    [] L = "G22" -> <<2, 2>>
    [] L = "G23" -> <<2, 3>>
    [] L = "G33" -> <<3, 3>>

\* the lists a constraint of the arity declares
Lists(arity) ==
  {ListNames[n] : n \in {n \in 1..Len(ListNames) :
                           ListVars(ListNames[n])[2] <= arity}}

ListIndex(L) == CHOOSE n \in 1..Len(ListNames) : ListNames[n] = L

zeros(r, c) == Fill(r, c, 0)

zero(n) == [j \in 1..n |-> 0]

Scale(a, m) ==
  [p \in 1..NRows(m) |-> [q \in 1..NCols(m) |-> a * m[p][q]]]

\* The n-th block evaluateHessians pushes on list L: XDim x XDim numbers
\* that the numerical derivative of the user's error function fixes.
HessianBlock(L, n, seed) ==
  Ramp(XDim(ListVars(L)[1]), XDim(ListVars(L)[2]),
       seed + 2 * n + ListIndex(L))

\* evaluateHessians as the base classes define it: one block per list for
\* each i below Base::get_noiseModel()->dim(), the constraint's dimension
EvaluateHessians(c, seed) ==
  [L \in Lists(c.arity) |->
     [n \in 1..c.constraintDim |-> HessianBlock(L, n, seed)]]

\* an evaluateHessians of a derived class: any number of blocks per list
OverriddenHessians(c, seed, counts) ==
  [L \in Lists(c.arity) |->
     [n \in 1..counts[L] |-> HessianBlock(L, n, seed)]]

\* dim(lambda) != G11.size() || dim(lambda) != G12.size() || ...
FirstListOnly(arity, lam, g) == Len(lam) # Len(g["G11"])

CountsDiffer(arity, lam, g) ==
  \E L \in Lists(arity) : Len(lam) # Len(g[L])

\* one turn of the loop: lGsum += -lambda[i] * G[i], for every list;
\* idx is i + 1, the lists of the model being numbered from 1
LoopTurnFirstBlock(arity, lam, g, acc, idx) ==
  [L \in Lists(arity) |-> MatAdd(acc[L], Scale(-lam[idx], g[L][1]))]

LoopTurn(arity, lam, g, acc, idx) ==
  [L \in Lists(arity) |-> MatAdd(acc[L], Scale(-lam[idx], g[L][idx]))]

\* the HessianFactor each class constructs: its keys, its blocks, its
\* linear terms and its constant
HessianFactorOf(c, acc) ==
  [kind |-> "factor",
   keys |-> CASE c.arity = 1 -> <<c.keys[1]>>
              [] c.arity = 2 -> <<c.keys[1], c.keys[2]>>
              [] c.arity = 3 -> <<c.keys[2], c.keys[2], c.keys[3]>>,
   Gs |-> acc,
   gs |-> [n \in 1..c.arity |-> zero(XDim(n))],
   f |-> IF c.arity = 1 THEN 100 ELSE 0,
   defined |-> TRUE]

Ended(kind) ==
  [kind |-> kind, keys |-> << >>, Gs |-> << >>, gs |-> << >>, f |-> 0,
   defined |-> TRUE]

DualKeys == {"d", "e"}

Constraints ==
  {[arity |-> a, keys |-> <<"x1", "x2", "x3">>, dualKey |-> k,
    constraintDim |-> d] : a \in 1..3, d \in 0..MaxDim, k \in DualKeys}

LambdaVectors == UNION {[1..d -> LambdaVals] : d \in 0..MaxDim}

\* list lengths an overriding evaluateHessians may return: n blocks on
\* every list but at most one
CountChoices(arity) ==
  {[L \in Lists(arity) |-> IF L = Lx THEN nx ELSE n] :
     n \in 0..MaxDim, nx \in 0..MaxDim, Lx \in Lists(arity)}

\* multipliedHessian(x, duals) is called; an inactive factor returns the
\* null pointer at once
MH_Call ==
  /\ pc = "idle"
  /\ \E active \in BOOLEAN, lam \in LambdaVectors :
       IF ~active
         THEN /\ pc' = "done"
              /\ result' = Ended("null")
              /\ UNCHANGED lambda
         ELSE /\ pc' = "evaluate"
              /\ lambda' = lam
              /\ UNCHANGED result
  /\ UNCHANGED <<con, G, i, sums>>
  /\ UNCHANGED <<advars, necvars>>

\* evaluateHessians(x1, ..., G11, ...): the base class's, or an override
MH_Evaluate ==
  /\ pc = "evaluate"
  /\ \E seed \in Vals :
       \/ G' = EvaluateHessians(con, seed)
       \/ \E counts \in CountChoices(con.arity) :
            G' = OverriddenHessians(con, seed, counts)
  /\ pc' = "check"
  /\ UNCHANGED <<con, lambda, i, sums, result>>
  /\ UNCHANGED <<advars, necvars>>

\* the count check: throw std::runtime_error, or go on
MH_Check ==
  /\ pc = "check"
  /\ IF CountsDiffer(con.arity, lambda, G)
       THEN pc' = "done" /\ result' = Ended("runtime_error")
       ELSE pc' = "zeros" /\ UNCHANGED result
  /\ UNCHANGED <<con, lambda, G, i, sums>>
  /\ UNCHANGED <<advars, necvars>>

\* lGsum = zeros(G[0].rows(), G[0].cols()).  G[0] of an empty list is
\* outside the list: the behaviour is undefined, and the run crashes or
\* goes on with whatever rows and columns it read.
MH_Zeros ==
  /\ pc = "zeros"
  /\ IF \A L \in Lists(con.arity) : Len(G[L]) > 0
       THEN /\ sums' = [L \in Lists(con.arity) |->
                          zeros(NRows(G[L][1]), NCols(G[L][1]))]
            /\ pc' = "loop"
            /\ UNCHANGED result
       ELSE \/ pc' = "done" /\ result' = [Ended("crash") EXCEPT !.defined = FALSE]
                            /\ UNCHANGED sums
            \/ \E r \in 0..1, c \in 0..1 :
                 /\ sums' = [L \in Lists(con.arity) |-> zeros(r, c)]
                 /\ pc' = "loop"
                 /\ result' = [result EXCEPT !.defined = FALSE]
  /\ i' = 0
  /\ UNCHANGED <<con, lambda, G>>
  /\ UNCHANGED <<advars, necvars>>

\* for (int i = 0; i < lambda.rows(); ++i)
MH_Loop ==
  /\ pc = "loop"
  /\ i < Len(lambda)
  /\ sums' = LoopTurn(con.arity, lambda, G, sums, i + 1)
  /\ i' = i + 1
  /\ UNCHANGED <<con, pc, lambda, G, result>>
  /\ UNCHANGED <<advars, necvars>>

\* the factor is constructed and returned
MH_Return ==
  /\ pc = "loop"
  /\ i >= Len(lambda)
  /\ result' = [HessianFactorOf(con, sums) EXCEPT !.defined = result.defined]
  /\ pc' = "done"
  /\ UNCHANGED <<con, lambda, G, i, sums>>
  /\ UNCHANGED <<advars, necvars>>

\* a variant that reports the field active_
IsActive_ReadsField(field) == field

\* NonlinearEqualityConstraint::isActive_(): return true
NonlinearEqualityConstraint_isActive_(field) == TRUE

\* NonlinearEqualityConstraint::setActive_(bool): the field is assigned
NonlinearEqualityConstraint_setActive_(field, arg) == arg

\* NonlinearEqualityConstraint::dualKey(): return dualKey_
NonlinearEqualityConstraint_dualKey(key) == key

NoReturn == [op |-> "none", val |-> "none"]

\* the members of the base class are called between calls of
\* multipliedHessian, never inside one
BetweenCalls == pc \in {"idle", "done"}

IsActive_ ==
  /\ BetweenCalls
  /\ ret' = [op |-> "isActive_",
             val |-> NonlinearEqualityConstraint_isActive_(active_)]
  /\ UNCHANGED <<dualKey_, active_, lastSet>>
  /\ UNCHANGED <<advars, mhvars>>

SetActive_ ==
  /\ BetweenCalls
  /\ \E arg \in BOOLEAN :
       /\ active_' = NonlinearEqualityConstraint_setActive_(active_, arg)
       /\ lastSet' = IF arg THEN "true" ELSE "false"
  /\ ret' = NoReturn
  /\ UNCHANGED dualKey_
  /\ UNCHANGED <<advars, mhvars>>

DualKey ==
  /\ BetweenCalls
  /\ ret' = [op |-> "dualKey",
             val |-> NonlinearEqualityConstraint_dualKey(dualKey_)]
  /\ UNCHANGED <<dualKey_, active_, lastSet>>
  /\ UNCHANGED <<advars, mhvars>>

MHNext ==
  \/ MH_Call
  \/ MH_Evaluate
  \/ MH_Check
  \/ MH_Zeros
  \/ MH_Loop
  \/ MH_Return
  \/ IsActive_
  \/ SetActive_
  \/ DualKey

(***************************************************************************)
(* The specifications: the dispatch layer, and the constraints.            *)
(***************************************************************************)
\* any record, not yet built, and an empty accumulator; no constraint call
InitAD ==
  /\ rec \in Records
  /\ tr \in 1..MaxRows
  /\ built = "unbuilt"
  /\ jacobians = EmptyJacobians
  /\ jac0 = EmptyJacobians
  /\ hist = << >>
  /\ calls = << >>
  /\ lastOp = "none"
  /\ status = "ok"
  /\ out = << >>
  /\ con = [arity |-> 1, keys |-> <<"x1", "x2", "x3">>, dualKey |-> "d",
            constraintDim |-> 1]
  /\ pc = "idle"
  /\ lambda = << >>
  /\ G = << >>
  /\ i = 0
  /\ sums = << >>
  /\ result = Ended("none")
  /\ dualKey_ = "d"
  /\ active_ = TRUE
  /\ lastSet = "none"
  /\ ret = NoReturn

\* any constraint, as constructed: dualKey_ is the constructor's dual key,
\* and active_, which no constructor initialises, holds either value; no
\* record in use
InitMH ==
  /\ rec = [Cols |-> 1, ownReverseAD |-> TRUE,
            args |-> <<[key |-> "x1", dTdA |-> Fill(1, VarDim, 1)]>>]
  /\ tr = 1
  /\ built = "unbuilt"
  /\ jacobians = EmptyJacobians
  /\ jac0 = EmptyJacobians
  /\ hist = << >>
  /\ calls = << >>
  /\ lastOp = "none"
  /\ status = "ok"
  /\ out = << >>
  /\ con \in Constraints
  /\ pc = "idle"
  /\ lambda = << >>
  /\ G = << >>
  /\ i = 0
  /\ sums = << >>
  /\ result = Ended("none")
  /\ dualKey_ = con.dualKey
  /\ active_ \in BOOLEAN
  /\ lastSet = "none"
  /\ ret = NoReturn

SpecAD == InitAD /\ [][ADNext]_vars

SpecMH == InitMH /\ [][MHNext]_vars


(***************************************************************************)
(* Properties of multipliedHessian.                                        *)
(***************************************************************************)
\* the call is past its count check
PastCheck == pc \in {"zeros", "loop", "done"} /\ result.kind # "null"

C10_BlocksAreWeightedSums ==
  (result.kind = "factor" /\ result.defined) =>
    /\ DOMAIN result.Gs = Lists(con.arity)
    /\ \A L \in Lists(con.arity) :
         /\ NRows(result.Gs[L]) = NRows(G[L][1])
         /\ NCols(result.Gs[L]) = NCols(G[L][1])
         /\ \A p \in 1..NRows(result.Gs[L]), q \in 1..NCols(result.Gs[L]) :
              result.Gs[L][p][q] =
                SumTo([n \in 1..Len(lambda) |-> (-lambda[n]) * G[L][n][p][q]],
                      Len(lambda))
    /\ Len(result.gs) = con.arity
    /\ \A n \in 1..con.arity :
         /\ Len(result.gs[n]) = XDim(n)
         /\ \A j \in 1..XDim(n) : result.gs[n][j] = 0

C10_Witness ==
  /\ result.kind = "factor"
  /\ result.defined
  /\ con.arity = 3
  /\ Len(lambda) = 2
  /\ lambda[1] # lambda[2]
  /\ result.Gs["G23"] # zeros(2, 1)

\* the pair of keys the factor holds the block of list L under: the
\* constructor of the factor takes keys and blocks by position, so the block
\* given as G_ab lies at the a-th and b-th key given
BlockKeys(f, L) == <<f.keys[ListVars(L)[1]], f.keys[ListVars(L)[2]]>>

\* C12: the factor multipliedHessian returns for a constraint of two or
\* three variables is keyed on the constraint's own variables in order
\* (key1, key2, key3), pairwise distinct as the constraint's keys are, so
\* that lG11sum lies at (key1, key1), lG12sum at (key1, key2), lG13sum at
\* (key1, key3), lG22sum at (key2, key2), lG23sum at (key2, key3) and
\* lG33sum at (key3, key3).
C12_KeyedOnOwnVariables ==
  (result.kind = "factor" /\ result.defined /\ con.arity >= 2) =>
    /\ result.keys = [n \in 1..con.arity |-> con.keys[n]]
    /\ \A m, n \in 1..con.arity : m # n => result.keys[m] # result.keys[n]
    /\ \A L \in Lists(con.arity) :
         BlockKeys(result, L) = <<con.keys[ListVars(L)[1]],
                                  con.keys[ListVars(L)[2]]>>

\* a factor of a three-variable constraint with keys x1, x2, x3 whose first
\* two keys are both x2, so that lG11sum and lG12sum lie at (x2, x2), where
\* lG22sum lies too, and nothing at x1
C12_Witness ==
  /\ result.kind = "factor"
  /\ result.defined
  /\ con.arity = 3
  /\ con.keys = <<"x1", "x2", "x3">>
  /\ result.keys = <<"x2", "x2", "x3">>
  /\ BlockKeys(result, "G11") = BlockKeys(result, "G22")
  /\ BlockKeys(result, "G12") = BlockKeys(result, "G22")

\* C13: whenever the count check of multipliedHessian has passed, every
\* element access that follows is inside its list, for every dimension, 0
\* included: each list has the element G[0] that sizes its sum, and each
\* turn i of the loop reads an element G[i] that exists; no call reads
\* outside a list.
C13_AccessesInBounds ==
  /\ pc = "zeros" => \A L \in Lists(con.arity) : 1 <= Len(G[L])
  /\ (pc = "loop" /\ i < Len(lambda)) =>
       \A L \in Lists(con.arity) : i + 1 <= Len(G[L])
  /\ result.defined

\* the check passed with dim(lambda) = 0 and every list empty, and G[0]
\* was read from an empty list
C13_Witness ==
  /\ pc \in {"loop", "done"}
  /\ result.kind # "runtime_error"
  /\ ~result.defined
  /\ Len(lambda) = 0
  /\ con.constraintDim = 0
  /\ \A L \in Lists(con.arity) : Len(G[L]) = 0

(***************************************************************************)
(* Properties of the base class of the constraints.                        *)
(***************************************************************************)
\* C11: an equality constraint is always active: after construction and
\* after any calls of setActive_(true) and setActive_(false), isActive_()
\* returns true, and dualKey() returns the dual key the constructor was
\* given.
C11_AlwaysActive ==
  /\ ret.op = "isActive_" => ret.val = TRUE
  /\ ret.op = "dualKey" => ret.val = con.dualKey

\* isActive_() was called after setActive_(false), with the field false
C11_Witness ==
  /\ lastSet = "false"
  /\ active_ = FALSE
  /\ ret.op = "isActive_"
  /\ con.dualKey = "e"

=============================================================================
